---- MODULE Spec2Model ----
(***************************************************************************)
(* The Response Tracker page (src/pages/1_📊_Response_Tracker.py): one     *)
(* "Scan Emails" run walks the paginated thread listing, accumulates one   *)
(* record per sender, merges the batch into the tracker file and saves it. *)
(*                                                                         *)
(* Values.  A Date header is kept as the raw header string; the code only  *)
(* ever compares these strings with < and >, so a header is modelled by    *)
(* its rank in Python's string order (1..MaxDate) and None by 0.  A body   *)
(* is modelled by its length in characters.  A key "recent_emails" that is *)
(* missing and one that holds [] are the same to every reader in the code  *)
(* (lines 264-269, 457-459, 478), so both are the empty sequence.          *)
(***************************************************************************)
EXTENDS Integers, Sequences, FiniteSets, TLC

\* ---------------------------------------------------------------- bounds
MaxRuns == 2          \* scan runs started in one behaviour
MaxThreads == 2       \* threads listed in one run
MaxMsgs == 2          \* messages the source serves in one behaviour
MaxDate == 2          \* distinct Date header strings
MaxDays == 2          \* calendar days a behaviour spans

\* ------------------------------------------------------- program constants
None == 0             \* Python None (a missing Date header, no last scan)
MinBody == 50         \* len(body) > 50
MaxExcerpt == 2000    \* body[:2000]
MaxRecent == 3        \* [:3]
FirstScanDays == 30   \* timedelta(days=30)

\* ------------------------------------------------------------ input values
\* st.secrets["SENDER_EMAIL"] as configured, and my_email as main derives it.
SENDER_EMAIL == "Me@X.com"

\* str.strip().lower() on the address strings the model feeds in.
StripLower(s) ==
    CASE s = "A@X.COM" -> "a@x.com"
      [] s = "a@x.com" -> "a@x.com"
      [] s = " b@x.com " -> "b@x.com"
      [] s = "Me@X.com" -> "me@x.com"
      [] s = "me@x.com" -> "me@x.com"
      [] OTHER -> s

\* str.lower() alone (SENDER_EMAIL is lower-cased, not stripped).
Lower(s) ==
    CASE s = "A@X.COM" -> "a@x.com"
      [] s = "Me@X.com" -> "me@x.com"
      [] OTHER -> s

\* Mutant: the secret is not configured and the default "" is used.
my_email_unset == ""

my_email == Lower(SENDER_EMAIL)

\* From headers: present or not; "Name <addr>" (angle) or the bare value.
FromHeaders ==
    { [present |-> FALSE, angle |-> FALSE, addr |-> ""],
      [present |-> TRUE, angle |-> TRUE, addr |-> "A@X.COM"],
      [present |-> TRUE, angle |-> FALSE, addr |-> "a@x.com"],
      [present |-> TRUE, angle |-> FALSE, addr |-> " b@x.com "],
      [present |-> TRUE, angle |-> TRUE, addr |-> "Me@X.com"] }

\* Date headers: None (no Date header) or a header string, by string rank.
DateHeaders == 0..MaxDate

\* The instant a Date header denotes.  Header strings are RFC 2822 dates and
\* start with the weekday name: rank 1 is "Fri, 06 ...", the later ranks are
\* "Mon, 02 ...", "Tue, 03 ...", "Wed, 04 ..." of the same week.
TimeOf(d) == IF d = 1 THEN MaxDate + 1 ELSE d

\* Payloads: mimeType, the parts (mimeType, decoded length of body.data,
\* whether the base64 data decodes), and the payload's own body.data.
Part(mt, n, ok) == [mimeType |-> mt, size |-> n, decodes |-> ok]

\* "Hello, interested in pricing, please send details" is 49 characters.
MultiShort ==
    [mimeType |-> "multipart/alternative", size |-> 0, decodes |-> TRUE,
     parts |-> <<Part("text/html", 300, TRUE), Part("text/plain", 49, TRUE)>>]

MultiLong ==
    [mimeType |-> "multipart/alternative", size |-> 0, decodes |-> TRUE,
     parts |-> <<Part("text/plain", 51, TRUE), Part("text/html", 300, TRUE)>>]

Payloads ==
    { MultiShort, MultiLong,
      [mimeType |-> "text/plain", size |-> 2001, decodes |-> TRUE, parts |-> <<>>],
      [mimeType |-> "text/plain", size |-> 50, decodes |-> TRUE, parts |-> <<>>],
      [mimeType |-> "text/plain", size |-> 51, decodes |-> FALSE, parts |-> <<>>],
      [mimeType |-> "text/html", size |-> 300, decodes |-> TRUE, parts |-> <<>>] }

Msg(a, d, p) == [from |-> CHOOSE h \in FromHeaders : h.addr = a, date |-> d, payload |-> p]

\* The messages a mailbox serves: a@x.com in one spelling with every Date
\* header and a long body, in the other with every kind of body on one date;
\* one message each from b@x.com, from the owner and without a From header.
Messages ==
    { Msg("A@X.COM", d, MultiLong) : d \in DateHeaders }
    \cup { Msg("a@x.com", MaxDate, p) : p \in Payloads \ {MultiLong} }
    \cup { Msg(" b@x.com ", 1, MultiLong), Msg("Me@X.com", 1, MultiLong),
           Msg("", 1, MultiLong) }

\* ------------------------------------------------------------ fact extractor
get_email_from_headers(h) ==
    IF h.present THEN StripLower(h.addr) ELSE ""

get_date_from_headers(d) == d

\* The length of the text get_message_body returns; 0 is "".
RECURSIVE FirstPlain(_, _)
FirstPlain(parts, i) ==
    IF i > Len(parts) THEN 0
    ELSE IF parts[i].mimeType = "text/plain" /\ parts[i].size > 0
         THEN i
         ELSE FirstPlain(parts, i + 1)

get_message_body(p) ==
    LET i == FirstPlain(p.parts, 1) IN
    IF i > 0
    THEN (IF p.parts[i].decodes THEN p.parts[i].size ELSE 0)
    ELSE IF p.mimeType = "text/plain" /\ p.size > 0
         THEN (IF p.decodes THEN p.size ELSE 0)
         ELSE 0

\* ------------------------------------------------------ contact aggregates
\* The defaultdict's fresh record (lines 163-170); "last_email_content" and
\* "threads" are never written and are left out; "ai_analysis" is a key the
\* record gets only from the AI phase ("absent" until then, "empty" is {}).
NewContact ==
    [emails_sent_to |-> 0, emails_received_from |-> 0,
     last_contact_date |-> None, first_contact_date |-> None,
     recent_emails |-> <<>>, ai_analysis |-> "absent"]

NoContacts == [k \in {} |-> NewContact]

Keys(c) == DOMAIN c

Put(c, k, v) == [x \in Keys(c) \cup {k} |-> IF x = k THEN v ELSE c[x]]

Take(s, n) == IF Len(s) <= n THEN s ELSE SubSeq(s, 1, n)

\* sorted(..., key=date, reverse=True): stable, larger date string first.
RECURSIVE InsertDesc(_, _)
InsertDesc(s, e) ==
    IF s = <<>> THEN <<e>>
    ELSE IF e.date > s[1].date THEN <<e>> \o s
         ELSE <<s[1]>> \o InsertDesc(Tail(s), e)

RECURSIVE SortDesc(_)
SortDesc(s) ==
    IF s = <<>> THEN <<>>
    ELSE InsertDesc(SortDesc(SubSeq(s, 1, Len(s) - 1)), s[Len(s)])

\* Comparing None with a str (or with None) is a TypeError: sorted raises as
\* soon as two keys are compared and one of them is None.
SortRaises(s) == Len(s) >= 2 /\ \E i \in 1..Len(s) : s[i].date = None

\* Mutant: any body text enters the window.
Eligible_any_text(body) == body > 0

\* Line 234: the body enters the window when it is longer than 50 characters.
Eligible(body) == body > MinBody

\* One iteration of the message loop (lines 211-246) on the batch c.
\* raised: the sorted call of line 242 raised, after the append of line 237.
ProcessMessage(c, m) ==
    LET sender_email == get_email_from_headers(m.from)
        date_str == get_date_from_headers(m.date)
        old == IF sender_email \in Keys(c) THEN c[sender_email] ELSE NewContact
        last == IF date_str # None
                   /\ (old.last_contact_date = None \/ date_str > old.last_contact_date)
                THEN date_str ELSE old.last_contact_date
        first == IF date_str # None
                    /\ (old.first_contact_date = None \/ date_str < old.first_contact_date)
                 THEN date_str ELSE old.first_contact_date
        body == get_message_body(m.payload)
        excerpt == IF body > MaxExcerpt THEN MaxExcerpt ELSE body
        appended == Append(old.recent_emails, [date |-> date_str, body |-> excerpt])
        counted == [old EXCEPT !.emails_received_from = @ + 1,
                               !.last_contact_date = last,
                               !.first_contact_date = first]
    IN  IF my_email # "" /\ sender_email = Lower(my_email)
        THEN [contacts |-> c, raised |-> FALSE]
        ELSE IF sender_email = ""
        THEN [contacts |-> c, raised |-> FALSE]
        ELSE IF Eligible(body)
        THEN IF SortRaises(appended)
             THEN [contacts |-> Put(c, sender_email,
                                    [counted EXCEPT !.recent_emails = appended]),
                   raised |-> TRUE]
             ELSE [contacts |-> Put(c, sender_email,
                                    [counted EXCEPT !.recent_emails =
                                        Take(SortDesc(appended), MaxRecent)]),
                   raised |-> FALSE]
        ELSE [contacts |-> Put(c, sender_email, counted), raised |-> FALSE]

\* ------------------------------------------------------------- merge engine
\* Mutant: the larger of the two counts is kept.
MergeContact_count_larger(old, data) ==
    [old EXCEPT
        !.emails_received_from =
            IF data.emails_received_from > @ THEN data.emails_received_from ELSE @,
        !.last_contact_date =
            IF data.last_contact_date # None
               /\ (@ = None \/ data.last_contact_date > @)
            THEN data.last_contact_date ELSE @,
        !.recent_emails =
            IF data.recent_emails # <<>>
            THEN Take(SortDesc(@ \o data.recent_emails), MaxRecent)
            ELSE @]

\* Mutant: the batch's count replaces the stored one.
MergeContact_count_replaced(old, data) ==
    [old EXCEPT
        !.emails_received_from = data.emails_received_from,
        !.last_contact_date =
            IF data.last_contact_date # None
               /\ (@ = None \/ data.last_contact_date > @)
            THEN data.last_contact_date ELSE @,
        !.recent_emails =
            IF data.recent_emails # <<>>
            THEN Take(SortDesc(@ \o data.recent_emails), MaxRecent)
            ELSE @]

\* Mutant: the batch's record brings its own annotation.
MergeContact_annotation_replaced(old, data) ==
    [old EXCEPT
        !.emails_received_from = @ + data.emails_received_from,
        !.last_contact_date =
            IF data.last_contact_date # None
               /\ (@ = None \/ data.last_contact_date > @)
            THEN data.last_contact_date ELSE @,
        !.recent_emails =
            IF data.recent_emails # <<>>
            THEN Take(SortDesc(@ \o data.recent_emails), MaxRecent)
            ELSE @,
        !.ai_analysis = data.ai_analysis]

\* The incremental branch (lines 449-467) for one address of the batch.
MergeContact(old, data) ==
    [old EXCEPT
        !.emails_received_from = @ + data.emails_received_from,
        !.last_contact_date =
            IF data.last_contact_date # None
               /\ (@ = None \/ data.last_contact_date > @)
            THEN data.last_contact_date ELSE @,
        !.recent_emails =
            IF data.recent_emails # <<>>
            THEN Take(SortDesc(@ \o data.recent_emails), MaxRecent)
            ELSE @]

\* The sorted call of line 461 raises for some address of the batch.
MergeRaises(existing, new) ==
    \E k \in Keys(new) \cap Keys(existing) :
        /\ new[k].recent_emails # <<>>
        /\ SortRaises(existing[k].recent_emails \o new[k].recent_emails)

\* Mutant: the merged mapping holds the addresses of the batch only.
MergeIncremental_batch_only(existing, new) ==
    [k \in Keys(new) |->
        IF k \in Keys(existing) THEN MergeContact(existing[k], new[k]) ELSE new[k]]

MergeIncremental(existing, new) ==
    [k \in Keys(existing) \cup Keys(new) |->
        IF k \in Keys(new)
        THEN (IF k \in Keys(existing) THEN MergeContact(existing[k], new[k]) ELSE new[k])
        ELSE existing[k]]

\* Lines 447-469: the merged mapping main goes on with.
MergeContacts(mode, existing, new) ==
    IF mode = "incremental" THEN MergeIncremental(existing, new) ELSE new

\* ------------------------------------------------------- enrichment driver
\* What the oracle call does: it answers a JSON object (one of two), text
\* without braces (line 305), or text in braces that json.loads rejects; the
\* last leaves through the except of line 306, as a raising call does.
OracleReplies == {"json1", "json2", "not json", "malformed"}

\* analyze_contact_with_ai, given a client and a non-empty window.
analyze_contact_with_ai(reply) ==
    CASE reply = "json1" -> "A1"
      [] reply = "json2" -> "A2"
      [] OTHER -> "empty"

\* Mutant: the analysis uses up the window it was given.
Analyzed_window_consumed(c, replies) ==
    [k \in Keys(c) |->
        IF c[k].recent_emails # <<>>
        THEN [c[k] EXCEPT !.ai_analysis = analyze_contact_with_ai(replies[k]),
                          !.recent_emails = <<>>]
        ELSE c[k]]

\* Mutant: a contact that has an annotation keeps it.
Analyzed_first_result_kept(c, replies) ==
    [k \in Keys(c) |->
        IF c[k].recent_emails # <<>> /\ c[k].ai_analysis \in {"absent", "empty"}
        THEN [c[k] EXCEPT !.ai_analysis = analyze_contact_with_ai(replies[k])]
        ELSE c[k]]

\* Mutant: an empty result leaves the annotation as it was.
Analyzed_empty_result_dropped(c, replies) ==
    [k \in Keys(c) |->
        IF c[k].recent_emails # <<>> /\ analyze_contact_with_ai(replies[k]) # "empty"
        THEN [c[k] EXCEPT !.ai_analysis = analyze_contact_with_ai(replies[k])]
        ELSE c[k]]

\* Lines 476-480: every contact with a non-empty window gets the result.
Analyzed(c, replies) ==
    [k \in Keys(c) |->
        IF c[k].recent_emails # <<>>
        THEN [c[k] EXCEPT !.ai_analysis = analyze_contact_with_ai(replies[k])]
        ELSE c[k]]

\* ---------------------------------------------------------------- state store
\* load_tracker_data: the file's content, or the default when there is no file.
DefaultData == [last_scan_date |-> None, contacts |-> NoContacts, total_threads_scanned |-> 0]

load_tracker_data(f) == IF f = <<>> THEN DefaultData ELSE f[1]

\* ------------------------------------------------------------------- state
VARIABLES
    env,                \* the installation and its mailbox; never changes
    file,               \* TRACKER_FILE: <<>> when it does not exist, else <<data>>
    today,              \* the calendar day datetime.now() falls on
    pc,                 \* where the Scan Emails handler stands ("idle": no run)
    runs,               \* runs started so far
    fetched,            \* messages the source has served so far
    scan_mode,          \* main: the radio's choice for the run
    enable_ai,          \* main: the checkbox for the run
    prior_data,         \* main: tracker_data as loaded at line 357
    tracker_data,       \* main: tracker_data as the handler changes it
    after_date,         \* main: the date predicate handed to the scan
    new_contacts,       \* the scan's contacts, then main's new_contacts
    thread_count,       \* the scan's thread_count, then main's threads_scanned
    existing_contacts,  \* main: the merged mapping
    next_page,          \* the scan: page_token is set
    threads_left,       \* the scan: threads of the page not yet visited
    messages_left,      \* the scan: messages of the thread not yet visited
    sender_email,       \* the scan: sender of the message visited last
    scan_error,         \* the scan: "none", or what the except of line 252 caught
    fetch_errors,       \* the scan: errors get_thread_messages reported
    replies,            \* the AI phase: what the oracle did for each contact
    single,             \* what one scan over every message merged into the file
                        \*   since it was last emptied or replaced would count
    single_run,         \* the same, with the messages of the run under way
    other               \* a second browser session's Scan Emails handler: where
                        \*   it stands, the tracker_data it loaded, its batch

vars == <<env, other, file, today, pc, runs, fetched, scan_mode, enable_ai, prior_data,
          tracker_data, after_date, new_contacts, thread_count, existing_contacts,
          next_page, threads_left, messages_left, sender_email, scan_error,
          fetch_errors, replies, single, single_run>>

main_vars == <<scan_mode, enable_ai, prior_data, tracker_data, after_date,
               existing_contacts, replies>>

scan_vars == <<new_contacts, thread_count, next_page, threads_left, messages_left,
               sender_email, scan_error, fetch_errors>>

ScanModes == {"incremental", "full", "custom"}

NoDatePredicate == [has |-> FALSE, day |-> 0]

NoReplies == [k \in {} |-> "malformed"]

\* One scan over a longer message sequence: the counts ProcessMessage reaches
\* (every other field dropped), whether every message had a Date header, and
\* how many incremental scans the sequence was served to; reset: the file was
\* removed by "Reset All Data" and no run has saved one since; oracle: what
\* the latest analyze_contact_with_ai call for each contact returned; span:
\* the earliest and the latest instant of each contact's dated messages.
NoSpan == [k \in {} |-> [lo |-> 0, hi |-> 0]]

NoSingle ==
    [contacts |-> NoContacts, dated |-> TRUE, scans |-> 0, reset |-> FALSE,
     oracle |-> NoReplies, span |-> NoSpan]

CountsOnly(c) ==
    [k \in Keys(c) |->
        [NewContact EXCEPT !.emails_received_from = c[k].emails_received_from]]

\* The span with the message m laid in, when m is counted (lines 217-223)
\* and has a Date header.
SpanStep(sp, m) ==
    LET k == get_email_from_headers(m.from)
        t == TimeOf(m.date)
    IN  IF k = "" \/ (my_email # "" /\ k = Lower(my_email)) \/ m.date = None
        THEN sp
        ELSE [x \in DOMAIN sp \cup {k} |->
                 IF x # k THEN sp[x]
                 ELSE IF k \in DOMAIN sp
                      THEN [lo |-> IF t < sp[k].lo THEN t ELSE sp[k].lo,
                            hi |-> IF t > sp[k].hi THEN t ELSE sp[k].hi]
                      ELSE [lo |-> t, hi |-> t]]

SingleStep(g, m) ==
    IF ~g.dated \/ m.date = None
    THEN [g EXCEPT !.contacts = NoContacts, !.dated = FALSE,
                   !.span = SpanStep(@, m)]
    ELSE [g EXCEPT !.contacts = CountsOnly(ProcessMessage(g.contacts, m).contacts),
                   !.span = SpanStep(@, m)]

\* What a script run starts with: nothing of an earlier handler is left.
NoRun ==
    /\ scan_mode = "incremental"
    /\ enable_ai = FALSE
    /\ prior_data = DefaultData
    /\ tracker_data = DefaultData
    /\ after_date = NoDatePredicate
    /\ new_contacts = NoContacts
    /\ thread_count = 0
    /\ existing_contacts = NoContacts
    /\ next_page = FALSE
    /\ threads_left = 0
    /\ messages_left = 0
    /\ sender_email = ""
    /\ scan_error = "none"
    /\ fetch_errors = 0
    /\ replies = NoReplies

\* The same, as the values a rerun leaves.
StartOver ==
    /\ scan_mode' = "incremental"
    /\ enable_ai' = FALSE
    /\ prior_data' = DefaultData
    /\ tracker_data' = DefaultData
    /\ after_date' = NoDatePredicate
    /\ new_contacts' = NoContacts
    /\ thread_count' = 0
    /\ existing_contacts' = NoContacts
    /\ next_page' = FALSE
    /\ threads_left' = 0
    /\ messages_left' = 0
    /\ sender_email' = ""
    /\ scan_error' = "none"
    /\ fetch_errors' = 0
    /\ replies' = NoReplies

\* The second session before it presses the button.
NoOther == [pc |-> "idle", loaded |-> DefaultData, batch |-> NoContacts]

\* A fresh installation: no tracker file, nothing run yet.
Fresh ==
    /\ file = <<>>
    /\ today = 1
    /\ pc = "idle"
    /\ runs = 0
    /\ fetched = 0
    /\ NoRun
    /\ single = NoSingle
    /\ single_run = NoSingle
    /\ other = NoOther

\* An installation without ANTHROPIC_API_KEY (get_anthropic_client answers
\* None and the checkbox of line 400 is disabled), used within one day.
Init ==
    /\ env = [feed |-> Messages, runs |-> MaxRuns, msgs |-> MaxMsgs,
              threads |-> MaxThreads, days |-> 1, days_back |-> {30},
              ai_client |-> FALSE]
    /\ Fresh

\* Mutant: an incremental scan always lists the last 30 days.
DatePredicate_watermark_ignored(mode, data, now, days_back) ==
    IF mode = "incremental"
    THEN [has |-> TRUE, day |-> now - FirstScanDays]
    ELSE IF mode = "full"
    THEN NoDatePredicate
    ELSE [has |-> TRUE, day |-> now - days_back]

\* Lines 409-427: the date predicate of the mode.
DatePredicate(mode, data, now, days_back) ==
    IF mode = "incremental"
    THEN IF data.last_scan_date # None
         THEN [has |-> TRUE, day |-> data.last_scan_date]
         ELSE [has |-> TRUE, day |-> now - FirstScanDays]
    ELSE IF mode = "full"
    THEN NoDatePredicate
    ELSE [has |-> TRUE, day |-> now - days_back]

\* Mutant: a rescan empties the contacts and keeps the thread total.
ResetForMode_total_kept(mode, data) ==
    IF mode = "incremental" THEN data ELSE [data EXCEPT !.contacts = NoContacts]

\* Lines 417-427: full and custom empty the loaded data before the scan.
ResetForMode(mode, data) ==
    IF mode = "incremental"
    THEN data
    ELSE [data EXCEPT !.contacts = NoContacts, !.total_threads_scanned = 0]

\* The button is pressed and get_gmail_service answers (lines 403-440).
ClickScan ==
    /\ pc = "idle"
    /\ runs < env.runs
    /\ \E mode \in ScanModes, ai \in BOOLEAN, days_back \in env.days_back :
        /\ ai => env.ai_client
        /\ scan_mode' = mode
        /\ enable_ai' = ai
        /\ tracker_data' = ResetForMode(mode, load_tracker_data(file))
        /\ after_date' = DatePredicate(mode, load_tracker_data(file), today, days_back)
        /\ single_run' = IF mode = "incremental"
                         THEN [single EXCEPT !.scans = @ + 1, !.reset = FALSE]
                         ELSE NoSingle
    /\ prior_data' = load_tracker_data(file)
    /\ runs' = runs + 1
    /\ pc' = "list"
    /\ UNCHANGED <<env, other, file, today, fetched, existing_contacts, replies, scan_vars,
                   single>>

\* The button is pressed and get_gmail_service raises: the except of line 498.
ClickScanNoService ==
    /\ pc = "idle"
    /\ runs < env.runs
    /\ \E mode \in ScanModes, ai \in BOOLEAN :
        /\ ai => env.ai_client
        /\ scan_mode' = mode
        /\ enable_ai' = ai
    /\ prior_data' = load_tracker_data(file)
    /\ tracker_data' = load_tracker_data(file)
    /\ runs' = runs + 1
    /\ pc' = "failed"
    /\ UNCHANGED <<env, other, file, today, fetched, after_date, existing_contacts, replies,
                   scan_vars, single, single_run>>

\* Where the thread loop goes once a thread is done (lines 202, 248-250).
AfterThread(left, more) ==
    IF left > 0 THEN "thread" ELSE IF more THEN "list" ELSE "merge"

\* threads().list answers a page of n threads, with or without a next token.
ListThreads ==
    /\ pc = "list"
    /\ \E n \in 0..(env.threads - thread_count), more \in BOOLEAN :
        /\ more => (n > 0 /\ thread_count + n < env.threads)
        /\ threads_left' = n
        /\ next_page' = more
        /\ pc' = AfterThread(n, more)
    /\ UNCHANGED <<env, other, file, today, runs, fetched, main_vars, new_contacts,
                   thread_count, messages_left, sender_email, scan_error,
                   fetch_errors, single, single_run>>

\* threads().list raises: the except of line 252 ends the pagination.
ListThreadsFails ==
    /\ pc = "list"
    /\ scan_error' = "list"
    /\ pc' = "merge"
    /\ UNCHANGED <<env, other, file, today, runs, fetched, main_vars, new_contacts,
                   thread_count, next_page, threads_left, messages_left,
                   sender_email, fetch_errors, single, single_run>>

\* get_thread_messages answers the thread's messages (lines 203-209).
FetchThread ==
    /\ pc = "thread"
    /\ thread_count' = thread_count + 1
    /\ threads_left' = threads_left - 1
    /\ \E n \in 0..(env.msgs - fetched) :
        /\ messages_left' = n
        /\ fetched' = fetched + n
        /\ pc' = IF n > 0 THEN "message" ELSE AfterThread(threads_left - 1, next_page)
    /\ UNCHANGED <<env, other, file, today, runs, main_vars, new_contacts, next_page,
                   sender_email, scan_error, fetch_errors, single, single_run>>

\* Mutant: a failed fetch ends the scan.
FetchThreadFails_aborts ==
    /\ pc = "thread"
    /\ thread_count' = thread_count + 1
    /\ threads_left' = threads_left - 1
    /\ fetch_errors' = fetch_errors + 1
    /\ pc' = "merge"
    /\ UNCHANGED <<env, other, file, today, runs, fetched, main_vars, new_contacts,
                   next_page, messages_left, sender_email, scan_error,
                   single, single_run>>

\* threads().get raises: get_thread_messages reports it and answers [].
FetchThreadFails ==
    /\ pc = "thread"
    /\ thread_count' = thread_count + 1
    /\ threads_left' = threads_left - 1
    /\ fetch_errors' = fetch_errors + 1
    /\ pc' = AfterThread(threads_left - 1, next_page)
    /\ UNCHANGED <<env, other, file, today, runs, fetched, main_vars, new_contacts,
                   next_page, messages_left, sender_email, scan_error,
                   single, single_run>>

\* One message of the thread (lines 211-246); a raising sort ends the
\* pagination through the except of line 252.
VisitMessage ==
    /\ pc = "message"
    /\ \E m \in env.feed :
        LET r == ProcessMessage(new_contacts, m) IN
        /\ new_contacts' = r.contacts
        /\ sender_email' = get_email_from_headers(m.from)
        /\ single_run' = SingleStep(single_run, m)
        /\ IF r.raised
           THEN /\ scan_error' = "sort"
                /\ pc' = "merge"
                /\ messages_left' = messages_left
           ELSE /\ scan_error' = scan_error
                /\ messages_left' = messages_left - 1
                /\ pc' = IF messages_left > 1 THEN "message"
                         ELSE AfterThread(threads_left, next_page)
    /\ UNCHANGED <<env, other, file, today, runs, fetched, main_vars, thread_count,
                   next_page, threads_left, fetch_errors, single>>

\* The scan has returned; main merges the batch (lines 444-469).  A raising
\* sort at line 461 leaves the handler through the except of line 498.
Merge ==
    /\ pc = "merge"
    /\ IF scan_mode = "incremental" /\ MergeRaises(tracker_data.contacts, new_contacts)
       THEN /\ pc' = "failed"
            /\ existing_contacts' = existing_contacts
       ELSE /\ pc' = IF enable_ai THEN "enrich" ELSE "persist"
            /\ existing_contacts' =
                   MergeContacts(scan_mode, tracker_data.contacts, new_contacts)
    /\ UNCHANGED <<env, other, file, today, runs, fetched, scan_mode, enable_ai, prior_data,
                   tracker_data, after_date, replies, scan_vars, single, single_run>>

\* Line 478: the contacts the AI loop calls the oracle for.
WithWindow(c) == {k \in Keys(c) : c[k].recent_emails # <<>>}

\* The results of the calls of lines 478-479, laid over the earlier ones.
Returned(before, c, r) ==
    [k \in DOMAIN before \cup {x \in Keys(c) : c[x].recent_emails # <<>>} |->
        IF k \in Keys(c) /\ c[k].recent_emails # <<>>
        THEN analyze_contact_with_ai(r[k]) ELSE before[k]]

\* Mutant: the oracle is called for every contact.
Enrich_every_contact ==
    /\ pc = "enrich"
    /\ \E r \in [Keys(existing_contacts) -> OracleReplies] :
        /\ replies' = r
        /\ existing_contacts' = Analyzed(existing_contacts, r)
        /\ single_run' = [single_run EXCEPT !.oracle = Returned(@, existing_contacts, r)]
    /\ pc' = "persist"
    /\ UNCHANGED <<env, other, file, today, runs, fetched, scan_mode, enable_ai, prior_data,
                   tracker_data, after_date, scan_vars, single>>

\* The AI phase (lines 472-485): one oracle call per contact with a window.
Enrich ==
    /\ pc = "enrich"
    /\ \E r \in [WithWindow(existing_contacts) -> OracleReplies] :
        /\ replies' = r
        /\ existing_contacts' = Analyzed(existing_contacts, r)
        /\ single_run' = [single_run EXCEPT !.oracle = Returned(@, existing_contacts, r)]
    /\ pc' = "persist"
    /\ UNCHANGED <<env, other, file, today, runs, fetched, scan_mode, enable_ai, prior_data,
                   tracker_data, after_date, scan_vars, single>>

\* Mutant: the thread total is set to the run's count.
Persist_total_replaced ==
    /\ pc = "persist"
    /\ tracker_data' =
           [contacts |-> existing_contacts,
            last_scan_date |-> today,
            total_threads_scanned |-> thread_count]
    /\ file' = <<tracker_data'>>
    /\ pc' = "success"
    /\ single' = single_run
    /\ UNCHANGED <<env, other, today, runs, fetched, scan_mode, enable_ai, prior_data,
                   after_date, existing_contacts, replies, scan_vars, single_run>>

\* Lines 487-495: the tracker data is updated and saved, success is reported.
Persist ==
    /\ pc = "persist"
    /\ tracker_data' =
           [contacts |-> existing_contacts,
            last_scan_date |-> today,
            total_threads_scanned |-> tracker_data.total_threads_scanned + thread_count]
    /\ file' = <<tracker_data'>>
    /\ pc' = "success"
    /\ single' = single_run
    /\ UNCHANGED <<env, other, today, runs, fetched, scan_mode, enable_ai, prior_data,
                   after_date, existing_contacts, replies, scan_vars, single_run>>

\* Mutant: the message reports the contacts of the batch.
Summary_of_batch ==
    [processed |-> thread_count, tracked |-> Cardinality(Keys(new_contacts))]

\* Line 495: "Scan complete! Processed {threads_scanned} threads, tracked
\* {len(existing_contacts)} contacts.", as shown once the run has saved.
Summary ==
    [processed |-> thread_count, tracked |-> Cardinality(Keys(existing_contacts))]

\* st.rerun() at line 496, or the next interaction after a failed run: the
\* script starts over and nothing of the handler is left.
Rerun ==
    /\ pc \in {"success", "failed"}
    /\ pc' = "idle"
    /\ StartOver
    /\ single_run' = NoSingle
    /\ UNCHANGED <<env, other, file, today, runs, fetched, single>>

\* Mutant: the reset empties the contacts and keeps the rest of the file.
ResetAllData_contacts_only ==
    /\ pc = "idle"
    /\ file # <<>>
    /\ file' = <<[load_tracker_data(file) EXCEPT !.contacts = NoContacts]>>
    /\ single' = [NoSingle EXCEPT !.reset = TRUE]
    /\ UNCHANGED <<env, other, today, pc, runs, fetched, main_vars, scan_vars, single_run>>

\* "Reset All Data" (lines 630-634): the file is removed and the script reruns.
ResetAllData ==
    /\ pc = "idle"
    /\ file # <<>>
    /\ file' = <<>>
    /\ single' = [NoSingle EXCEPT !.reset = TRUE]
    /\ UNCHANGED <<env, other, today, pc, runs, fetched, main_vars, scan_vars, single_run>>

\* Midnight passes while no run is under way.
NextDay ==
    /\ pc = "idle"
    /\ today < env.days
    /\ today' = today + 1
    /\ UNCHANGED <<env, other, file, pc, runs, fetched, main_vars, scan_vars, single,
                   single_run>>

\* Everything but the AI phase and the clock.
Next ==
    \/ ClickScan
    \/ ClickScanNoService
    \/ ListThreads
    \/ ListThreadsFails
    \/ FetchThread
    \/ FetchThreadFails
    \/ VisitMessage
    \/ Merge
    \/ Persist
    \/ Rerun
    \/ ResetAllData

Spec == Init /\ [][Next]_vars

\* The second session's script run loads the file (line 357) and its
\* handler starts an incremental scan; Streamlit runs each session's script
\* in a thread of its own and the code takes no lock on TRACKER_FILE.
OtherClickScan ==
    /\ other.pc = "idle"
    /\ other' = [pc |-> "running", loaded |-> load_tracker_data(file),
                 batch |-> NoContacts]
    /\ UNCHANGED <<file, today, pc, runs, fetched, main_vars, scan_vars, single,
                   single_run, env>>

\* The second session's scan has returned one conversation of one message;
\* its handler merges (lines 444-469) into what it loaded and saves (487-493).
OtherPersist ==
    /\ other.pc = "running"
    /\ \E m \in env.feed :
        LET batch == ProcessMessage(NoContacts, m).contacts IN
        IF MergeRaises(other.loaded.contacts, batch)
        THEN /\ other' = [other EXCEPT !.pc = "failed", !.batch = batch]
             /\ file' = file
        ELSE /\ other' = [other EXCEPT !.pc = "done", !.batch = batch]
             /\ file' = <<[contacts |-> MergeContacts("incremental",
                                            other.loaded.contacts, batch),
                           last_scan_date |-> today,
                           total_threads_scanned |->
                               other.loaded.total_threads_scanned + 1]>>
    /\ UNCHANGED <<today, pc, runs, fetched, main_vars, scan_vars, single,
                   single_run, env>>

\* Two browser sessions on one installation, on a mailbox of two
\* correspondents who write long bodies.
InitSessions ==
    /\ env = [feed |-> { Msg(" b@x.com ", 1, MultiLong),
                         Msg("A@X.COM", MaxDate, MultiLong) },
              runs |-> MaxRuns, msgs |-> MaxMsgs, threads |-> MaxThreads,
              days |-> 1, days_back |-> {30}, ai_client |-> FALSE]
    /\ Fresh

NextSessions ==
    \/ Next
    \/ OtherClickScan
    \/ OtherPersist

SpecSessions == InitSessions /\ [][NextSessions]_vars

\* An installation with ANTHROPIC_API_KEY, used over MaxDays days, on a
\* mailbox of two correspondents: b@x.com writes long bodies, a@x.com a
\* short one, listing one thread fewer than the other installations.
\* "Days back" is 1 or 365, the ends of its range (line 397).
InitAI ==
    /\ env = [feed |-> { Msg(" b@x.com ", 1, MultiLong),
                         Msg("a@x.com", MaxDate, MultiShort) },
              runs |-> MaxRuns, msgs |-> MaxMsgs, threads |-> MaxThreads - 1,
              days |-> MaxDays, days_back |-> {1, 365}, ai_client |-> TRUE]
    /\ Fresh

\* Everything.
NextAI ==
    \/ Next
    \/ Enrich
    \/ NextDay

SpecAI == InitAI /\ [][NextAI]_vars

\* The mailbox of the pricing enquiry: a@x.com's 49-character message and
\* the owner's own message.
InitEnquiry ==
    /\ env = [feed |-> { Msg("a@x.com", MaxDate, MultiShort),
                         Msg("Me@X.com", 1, MultiLong) },
              runs |-> MaxRuns, msgs |-> MaxMsgs, threads |-> MaxThreads,
              days |-> 1, days_back |-> {30}, ai_client |-> FALSE]
    /\ Fresh

SpecEnquiry == InitEnquiry /\ [][Next]_vars

\* An installation with ANTHROPIC_API_KEY used on one day: a@x.com writes a
\* long and a short message, b@x.com a long one; the mailbox serves one
\* message more than the others, in one listed thread fewer.
InitOracle ==
    /\ env = [feed |-> { Msg(" b@x.com ", 1, MultiLong),
                         Msg("A@X.COM", MaxDate, MultiLong),
                         Msg("a@x.com", MaxDate, MultiShort) },
              runs |-> MaxRuns, msgs |-> MaxMsgs + 1, threads |-> MaxThreads - 1,
              days |-> 1, days_back |-> {30}, ai_client |-> TRUE]
    /\ Fresh

NextOracle ==
    \/ Next
    \/ Enrich

SpecOracle == InitOracle /\ [][NextOracle]_vars

\* A busy correspondent: a@x.com writes long, dated messages, two more of
\* them than the other mailboxes serve, all in one listed thread.
InitBusy ==
    /\ env = [feed |-> { Msg("a@x.com", 1, MultiLong),
                         Msg("a@x.com", MaxDate, MultiLong) },
              runs |-> MaxRuns, msgs |-> MaxMsgs + 2, threads |-> MaxThreads - 1,
              days |-> 1, days_back |-> {30}, ai_client |-> FALSE]
    /\ Fresh

SpecBusy == InitBusy /\ [][Next]_vars

\* ------------------------------------------------------------ properties
\* The persisted ScanState, as getState reads it.
Stored == load_tracker_data(file)

Ended == pc \in {"success", "failed"}

Windows(c) == { c[k].recent_emails : k \in Keys(c) }

\* Descending by the instant the Date headers denote; an entry without a
\* Date header has no timestamp and is not compared.
DescendingByTime(w) ==
    \A i, j \in 1..Len(w) :
        (i < j /\ w[i].date # None /\ w[j].date # None)
            => TimeOf(w[i].date) >= TimeOf(w[j].date)

\* C1: in every reachable ScanState every contact's recentMessages has at
\* most 3 entries and is sorted descending by timestamp.
C1_WindowBoundedAndSorted ==
    \A w \in Windows(Stored.contacts) : Len(w) <= MaxRecent /\ DescendingByTime(w)

\* C2: no key of contacts, persisted or being built, is the configured
\* mailbox-owner address (as typed or lower-cased).
C2_OwnerNeverAKey ==
    \A c \in {Stored.contacts, new_contacts, existing_contacts} :
        \A k \in Keys(c) : k # SENDER_EMAIL /\ k # Lower(SENDER_EMAIL)

\* C2 witness: a run whose last message came from the owner has persisted
\* a non-empty contacts mapping.
C2_Witness ==
    /\ pc = "success"
    /\ sender_email = Lower(SENDER_EMAIL)
    /\ Keys(Stored.contacts) # {}

Received(c) == [k \in Keys(c) |-> c[k].emails_received_from]

\* C3: after incremental scans over disjoint sets of dated messages every
\* contact's receivedCount is what one scan over all of them counts.
C3_IncrementalCountsAddUp ==
    single.dated => Received(Stored.contacts) = Received(single.contacts)

\* C3 witness: the second of two incremental scans has merged a batch for a
\* contact the first one had already counted.
C3_Witness ==
    /\ pc = "success"
    /\ single.dated
    /\ single.scans = 2
    /\ \E k \in Keys(prior_data.contacts) \cap Keys(new_contacts) :
           Stored.contacts[k].emails_received_from = 2

\* C4: once a full or custom scan has persisted, contacts is the batch of
\* that scan and totalThreadsScanned its conversation count.
C4_ReplaceFull ==
    (pc = "success" /\ scan_mode # "incremental")
        => /\ Stored.contacts = new_contacts
           /\ Stored.total_threads_scanned = thread_count

\* C4 witness: a full rescan has persisted over a state that held a contact
\* its batch does not hold, and a larger thread total.
C4_Witness ==
    /\ pc = "success"
    /\ scan_mode = "full"
    /\ Keys(prior_data.contacts) \ Keys(new_contacts) # {}
    /\ Keys(new_contacts) # {}
    /\ prior_data.total_threads_scanned > thread_count

\* C5: a failed conversation fetch adds nothing to any contact, is counted
\* as processed, and the scan goes on with the next conversation or page;
\* a scan that no listing or sorting error ended has visited every thread.
C5_FetchFailureRecovered ==
    /\ [](((pc \in {"merge", "enrich", "persist"} \/ Ended) /\ scan_error = "none")
            => (threads_left = 0 /\ ~next_page))
    /\ [][(fetch_errors' = fetch_errors + 1)
            => /\ new_contacts' = new_contacts
               /\ thread_count' = thread_count + 1
               /\ scan_error' = scan_error
               /\ pc' = AfterThread(threads_left - 1, next_page)]_vars

\* C5 witness: the first thread's fetch failed and the messages of the
\* second thread are being visited.
C5_Witness ==
    /\ pc = "message"
    /\ fetch_errors = 1
    /\ thread_count = 2

\* C6: a run whose listing call failed still merges what it aggregated
\* under the mode's policy, persists it with lastScanDate = today and
\* reports success.
C6_ListingFailureStillPersists ==
    (Ended /\ scan_error = "list")
        => /\ pc = "success"
           /\ Stored =
                [contacts |-> MergeContacts(scan_mode,
                                  ResetForMode(scan_mode, prior_data).contacts,
                                  new_contacts),
                 last_scan_date |-> today,
                 total_threads_scanned |->
                     ResetForMode(scan_mode, prior_data).total_threads_scanned
                         + thread_count]

\* The first listing call of the run raised (a page with a next token holds
\* a thread, so no thread was visited before a failed first call only).
FirstListingFailed == scan_error = "list" /\ thread_count = 0

\* C7: a run whose first listing call fails on the credentials ends in
\* failure and leaves the persisted ScanState as it was.
C7_AuthFailureLeavesState ==
    (Ended /\ FirstListingFailed) => (pc = "failed" /\ Stored = prior_data)

\* c holds address k with one counted message, dated, in its window.
OneEligible(c, k) ==
    /\ k \in Keys(c)
    /\ c[k].emails_received_from = 1
    /\ Len(c[k].recent_emails) = 1
    /\ c[k].recent_emails[1].date # None

\* C10: from no prior state, two incremental scans that each saw one
\* eligible message of a contact, at different timestamps, leave
\* receivedCount 2 and both excerpts in the window, the more recent first.
C10_TwoScansOrdered ==
    \A k \in Keys(new_contacts) :
        ( /\ pc = "success"
          /\ scan_mode = "incremental"
          /\ single.scans = 2
          /\ OneEligible(prior_data.contacts, k)
          /\ OneEligible(new_contacts, k)
          /\ prior_data.contacts[k].recent_emails[1].date
                 # new_contacts[k].recent_emails[1].date )
        => LET w == Stored.contacts[k].recent_emails IN
           /\ Stored.contacts[k].emails_received_from = 2
           /\ Len(w) = 2
           /\ {w[1], w[2]} = { prior_data.contacts[k].recent_emails[1],
                               new_contacts[k].recent_emails[1] }
           /\ TimeOf(w[1].date) > TimeOf(w[2].date)

\* The oracle's answer for k was not well-formed JSON: text without an
\* object, or an object json.loads rejects.
NotWellFormed(k) ==
    /\ k \in Keys(replies)
    /\ replies[k] \in {"not json", "malformed"}
    /\ existing_contacts[k].recent_emails # <<>>

HadAnnotation(k) ==
    k \in Keys(prior_data.contacts)
        /\ prior_data.contacts[k].ai_analysis \notin {"absent", "empty"}

\* C8 as stated: after an answer that is not well-formed JSON the contact's
\* annotation is absent if it had none, unchanged if it had one, and the
\* run persists and reports success.
C8_MalformedKeepsAnnotation ==
    \A k \in Keys(existing_contacts) :
        (Ended /\ enable_ai /\ NotWellFormed(k))
            => /\ pc = "success"
               /\ IF HadAnnotation(k) /\ scan_mode = "incremental"
                  THEN Stored.contacts[k].ai_analysis
                           = prior_data.contacts[k].ai_analysis
                  ELSE Stored.contacts[k].ai_analysis \in {"absent", "empty"}

\* C8 amended: after an answer that is not well-formed JSON the contact's
\* annotation is empty, whether or not it had one before, and the run
\* persists and reports success.
C8_MalformedEmptiesAnnotation ==
    \A k \in Keys(existing_contacts) :
        (pc \in {"persist", "success", "failed"} /\ enable_ai /\ NotWellFormed(k))
            => /\ pc # "failed"
               /\ existing_contacts[k].ai_analysis = "empty"
               /\ pc = "success" => Stored.contacts[k].ai_analysis = "empty"

\* C8 witness: an incremental run has persisted after a malformed answer for
\* a contact that carried an annotation from the run before.
C8_Witness ==
    /\ pc = "success"
    /\ scan_mode = "incremental"
    /\ \E k \in Keys(existing_contacts) : NotWellFormed(k) /\ HadAnnotation(k)

\* The first run, incremental on no prior state, has scanned one conversation
\* of two messages: the owner's came last, and the other was not the owner's
\* (the batch is not empty), so it was a@x.com's 49 characters.
EnquiryScanned ==
    /\ pc = "success"
    /\ runs = 1
    /\ scan_mode = "incremental"
    /\ prior_data = DefaultData
    /\ thread_count = 1
    /\ fetched = 2
    /\ sender_email = Lower(SENDER_EMAIL)
    /\ new_contacts # NoContacts

\* C9 as stated: the enquiry scenario yields receivedCount 1 and a non-empty
\* recentMessages for a@x.com.
C9_EnquiryWindowNonEmpty ==
    EnquiryScanned
        => /\ Keys(Stored.contacts) = {"a@x.com"}
           /\ Stored.contacts["a@x.com"].emails_received_from = 1
           /\ Stored.contacts["a@x.com"].recent_emails # <<>>

\* C9 amended: the enquiry scenario yields receivedCount 1 and an empty
\* recentMessages for a@x.com, 49 characters being no more than 50.
C9_EnquiryWindowEmpty ==
    EnquiryScanned
        => /\ Keys(Stored.contacts) = {"a@x.com"}
           /\ Stored.contacts["a@x.com"].emails_received_from = 1
           /\ Stored.contacts["a@x.com"].recent_emails = <<>>

\* C9 witness: the enquiry has been scanned and persisted.
C9_Witness == EnquiryScanned /\ "a@x.com" \in Keys(Stored.contacts)

\* A run is under way, between the click and the save.
InRun == pc \in {"list", "thread", "message", "merge", "enrich", "persist"}

\* C11: after "Reset All Data", whatever the file held, the state read back
\* has no contacts, no last scan date and a thread total of 0, and the next
\* incremental run works from exactly that: it lists the last 30 days and
\* merges its batch into nothing.
C11_ResetEmptiesState ==
    single.reset
        => /\ Stored = [last_scan_date |-> None, contacts |-> NoContacts,
                        total_threads_scanned |-> 0]
           /\ (InRun /\ scan_mode = "incremental")
                  => /\ prior_data = Stored
                     /\ tracker_data = Stored
                     /\ after_date = [has |-> TRUE, day |-> today - FirstScanDays]
           /\ (pc = "persist" /\ scan_mode = "incremental")
                  => existing_contacts = new_contacts

\* C11 witness: the first incremental run after a reset has merged a
\* non-empty batch and is about to save it.
C11_Witness ==
    /\ single.reset
    /\ pc = "persist"
    /\ scan_mode = "incremental"
    /\ new_contacts # NoContacts

\* C12: an incremental run that saves leaves totalThreadsScanned at least
\* what it was when the run loaded the file, and every contact of that file
\* with a receivedCount at least what it was; a run that does not save
\* leaves the file as it was.
C12_IncrementalNeverLowers ==
    /\ (pc = "success" /\ scan_mode = "incremental")
           => /\ Stored.total_threads_scanned >= prior_data.total_threads_scanned
              /\ \A k \in Keys(prior_data.contacts) :
                     /\ k \in Keys(Stored.contacts)
                     /\ Stored.contacts[k].emails_received_from
                            >= prior_data.contacts[k].emails_received_from
    /\ (InRun \/ pc = "failed") => Stored = prior_data

\* C12 witness: an incremental run has saved a larger thread total and a
\* larger receivedCount for a contact the file already held.
C12_Witness ==
    /\ pc = "success"
    /\ scan_mode = "incremental"
    /\ prior_data.total_threads_scanned > 0
    /\ Stored.total_threads_scanned > prior_data.total_threads_scanned
    /\ \E k \in Keys(prior_data.contacts) :
           Stored.contacts[k].emails_received_from
               > prior_data.contacts[k].emails_received_from

\* C13: with a scan started from each of two sessions, both incremental and
\* both saved, the file holds the batch of each: every address either run
\* counted is a contact, with at least the count that run gave it.
C13_NoLostUpdate ==
    (pc = "success" /\ scan_mode = "incremental" /\ other.pc = "done")
        => \A b \in {new_contacts, other.batch} :
             \A k \in Keys(b) :
                 /\ k \in Keys(Stored.contacts)
                 /\ Stored.contacts[k].emails_received_from
                        >= b[k].emails_received_from

\* The contacts with the annotation taken off.
WithoutAnnotation(c) == [k \in Keys(c) |-> [c[k] EXCEPT !.ai_analysis = "absent"]]

\* What a run with the checkbox off saves, given what was loaded, the mode,
\* the day and what the scan returned (none of which the checkbox or the
\* oracle enters: line 439 hands the scan a client it never uses).
SavedWithoutAI ==
    [contacts |-> MergeContacts(scan_mode,
                      ResetForMode(scan_mode, prior_data).contacts, new_contacts),
     last_scan_date |-> today,
     total_threads_scanned |->
         ResetForMode(scan_mode, prior_data).total_threads_scanned + thread_count]

\* C14: what a run saves is, annotation apart, what the same run saves with
\* AI analysis off, whatever the oracle answered: same keys, counts, first
\* and last dates, windows, thread total and last scan date.
C14_AggregationIgnoresOracle ==
    pc = "success"
        => /\ WithoutAnnotation(Stored.contacts)
                  = WithoutAnnotation(SavedWithoutAI.contacts)
           /\ Stored.last_scan_date = SavedWithoutAI.last_scan_date
           /\ Stored.total_threads_scanned = SavedWithoutAI.total_threads_scanned
           /\ ~enable_ai => Stored = SavedWithoutAI

\* C14 witness: a run with AI analysis on has saved a contact with an
\* annotation that the same run without AI analysis would not have saved.
C14_Witness ==
    /\ pc = "success"
    /\ enable_ai
    /\ \E k \in Keys(Stored.contacts) :
           /\ Stored.contacts[k].ai_analysis \in {"A1", "A2"}
           /\ Stored.contacts[k].ai_analysis
                  # SavedWithoutAI.contacts[k].ai_analysis

\* C15: in the saved state no window holds two entries with the same
\* timestamp (a window sorted strictly descending has none).
C15_NoEqualTimestamps ==
    \A w \in Windows(Stored.contacts) :
        \A i, j \in 1..Len(w) :
            (i < j /\ w[i].date # None /\ w[j].date # None)
                => TimeOf(w[i].date) # TimeOf(w[j].date)

\* C16: once the AI phase of a run has called the oracle for a contact, the
\* contact's annotation is what that call returned and nothing else; and an
\* annotation in the saved state is what the latest call for that contact
\* returned.
C16_AnnotationIsLatestResult ==
    /\ (pc \in {"persist", "success"} /\ enable_ai)
           => \A k \in Keys(existing_contacts) :
                  existing_contacts[k].recent_emails # <<>>
                      => existing_contacts[k].ai_analysis
                             = analyze_contact_with_ai(replies[k])
    /\ \A k \in Keys(Stored.contacts) :
           Stored.contacts[k].ai_analysis \in {"A1", "A2"}
               => /\ k \in DOMAIN single.oracle
                  /\ Stored.contacts[k].ai_analysis = single.oracle[k]

\* C16 witness: an incremental run has saved, for a contact that carried one
\* annotation, the other one the oracle returned this time.
C16_Witness ==
    /\ pc = "success"
    /\ enable_ai
    /\ \E k \in Keys(prior_data.contacts) :
           /\ prior_data.contacts[k].ai_analysis = "A1"
           /\ replies[k] = "json2"
           /\ Stored.contacts[k].ai_analysis = "A2"

\* C17: from the click of an incremental run to its end, saved or failed,
\* every address the file held at the click is an address of the file, and
\* of the merged mapping the run is about to save.
C17_IncrementalKeepsContacts ==
    (scan_mode = "incremental" /\ (InRun \/ Ended))
        => /\ Keys(prior_data.contacts) \subseteq Keys(Stored.contacts)
           /\ pc \in {"enrich", "persist", "success"}
                  => Keys(prior_data.contacts) \subseteq Keys(existing_contacts)

\* C17 witness: an incremental run has saved a batch for one address and the
\* file still holds another address, which the batch did not mention.
C17_Witness ==
    /\ pc = "success"
    /\ scan_mode = "incremental"
    /\ new_contacts # NoContacts
    /\ \E k \in Keys(prior_data.contacts) :
           k \notin Keys(new_contacts) /\ k \in Keys(Stored.contacts)

\* C18: a run ends in failure only out of Listing: a failed run either
\* fetched no thread at all or had a listing call raise; a run that went
\* through Fetching, Aggregating and Merging with every listing call
\* answered is saved.
C18_FailedOnlyFromListing ==
    pc = "failed" => (thread_count = 0 \/ scan_error = "list")

\* C19: for every contact of the saved state, firstContactAt is the
\* earliest and lastContactAt the latest instant among the dated messages
\* counted into it since the file was last emptied or replaced, and both are
\* absent when none of them was dated.
C19_FirstAndLastContact ==
    \A k \in Keys(Stored.contacts) :
        LET c == Stored.contacts[k] IN
        IF k \in DOMAIN single.span
        THEN /\ c.first_contact_date # None
             /\ c.last_contact_date # None
             /\ TimeOf(c.first_contact_date) = single.span[k].lo
             /\ TimeOf(c.last_contact_date) = single.span[k].hi
        ELSE c.first_contact_date = None /\ c.last_contact_date = None

\* C20: while a run is under way, the date predicate it lists with and the
\* data it merges into follow from its mode: incremental lists from the last
\* scan date of the file, or from 30 days back when there is none, and keeps
\* the loaded data; full lists with no predicate and custom from N days back,
\* and both work on the loaded data with no contacts and a thread total of 0.
C20_ModeChoosesPredicateAndReset ==
    (pc \in {"list", "thread", "message", "merge", "enrich", "persist"})
        => CASE scan_mode = "incremental" ->
                  /\ after_date.has
                  /\ after_date.day = IF prior_data.last_scan_date # None
                                      THEN prior_data.last_scan_date
                                      ELSE today - FirstScanDays
                  /\ tracker_data = prior_data
             [] scan_mode = "full" ->
                  /\ ~after_date.has
                  /\ tracker_data.contacts = NoContacts
                  /\ tracker_data.total_threads_scanned = 0
                  /\ tracker_data.last_scan_date = prior_data.last_scan_date
             [] scan_mode = "custom" ->
                  /\ after_date.has
                  /\ \E n \in env.days_back : after_date.day = today - n
                  /\ tracker_data.contacts = NoContacts
                  /\ tracker_data.total_threads_scanned = 0
                  /\ tracker_data.last_scan_date = prior_data.last_scan_date

\* C20 witness: an incremental run started the day after a scan lists from
\* that scan's date, on a file that holds contacts.
C20_Witness ==
    /\ pc = "list"
    /\ scan_mode = "incremental"
    /\ prior_data.last_scan_date # None
    /\ today > prior_data.last_scan_date
    /\ after_date = [has |-> TRUE, day |-> prior_data.last_scan_date]
    /\ tracker_data.contacts # NoContacts

\* The later of two Date headers, by the instants they denote; None is no date.
LaterOf(a, b) ==
    IF b = None THEN a
    ELSE IF a = None THEN b
    ELSE IF TimeOf(b) > TimeOf(a) THEN b ELSE a

\* C21: when an incremental run has saved, every address that was in the
\* file and is in the batch has the firstContactAt it had, and as
\* lastContactAt the later of the one it had and the batch's (the one it had
\* when the batch has none).
C21_MergeKeepsFirstTakesLatest ==
    (pc = "success" /\ scan_mode = "incremental")
        => \A k \in Keys(prior_data.contacts) \cap Keys(new_contacts) :
               /\ Stored.contacts[k].first_contact_date
                      = prior_data.contacts[k].first_contact_date
               /\ Stored.contacts[k].last_contact_date
                      = LaterOf(prior_data.contacts[k].last_contact_date,
                                new_contacts[k].last_contact_date)

\* C22: once a run has saved, totalThreadsScanned is what the file held
\* plus the threads the scan visited (failed fetches included) in
\* incremental mode, and that number alone in full and custom mode; the
\* success message reports that number and the size of the saved contacts.
C22_ThreadTotalAndSummary ==
    pc = "success"
        => /\ Stored.total_threads_scanned =
                  (IF scan_mode = "incremental"
                   THEN prior_data.total_threads_scanned ELSE 0) + thread_count
           /\ thread_count >= fetch_errors
           /\ Summary.processed = thread_count
           /\ Summary.tracked = Cardinality(Keys(Stored.contacts))

\* C22 witness: an incremental run in which one of two fetches failed has
\* saved, on a file that held a thread total and a contact the batch lacks.
C22_Witness ==
    /\ pc = "success"
    /\ scan_mode = "incremental"
    /\ fetch_errors = 1
    /\ thread_count = 2
    /\ prior_data.total_threads_scanned > 0
    /\ Stored.total_threads_scanned = prior_data.total_threads_scanned + 2
    /\ Summary.tracked > Cardinality(Keys(new_contacts))

\* The receivedCount of address k in c, 0 when c does not hold k.
ReceivedFrom(c, k) == IF k \in Keys(c) THEN c[k].emails_received_from ELSE 0

\* C23: an incremental run with an empty batch saves the contacts it loaded,
\* unchanged; a non-empty batch adds its count to each of its addresses,
\* and merging the same batch into the result once more adds it again.
C23_IdempotentOnlyWhenEmpty ==
    (pc = "success" /\ scan_mode = "incremental")
        => /\ new_contacts = NoContacts => Stored.contacts = prior_data.contacts
           /\ \A k \in Keys(new_contacts) :
                  /\ ReceivedFrom(Stored.contacts, k)
                         = ReceivedFrom(prior_data.contacts, k)
                               + new_contacts[k].emails_received_from
                  /\ ReceivedFrom(MergeIncremental(Stored.contacts, new_contacts), k)
                         = ReceivedFrom(Stored.contacts, k)
                               + new_contacts[k].emails_received_from

\* C23 witness: the second of two incremental runs has scanned the very
\* batch the first one saved, and the file holds every count twice.
C23_Witness ==
    /\ pc = "success"
    /\ scan_mode = "incremental"
    /\ single.scans = 2
    /\ new_contacts # NoContacts
    /\ new_contacts = prior_data.contacts
    /\ \A k \in Keys(new_contacts) :
           Stored.contacts[k].emails_received_from
               = 2 * new_contacts[k].emails_received_from

\* C24: the pagination loop is left only after a page without a next token
\* or after a listing call that raised; when no listing call raised, the
\* scan has returned with every thread of every page fetched and no next
\* token pending.
C24_LoopEndsAtLastPageOrListingFailure ==
    (pc \in {"merge", "enrich", "persist"} \/ Ended)
        => \/ scan_error = "list"
           \/ (threads_left = 0 /\ ~next_page)

\* C25: a message without a Date header is counted and stops nothing: the
\* scan is never ended by the sort of a window that holds it, and the merge
\* of a batch that holds it is never about to raise; a contact counted from
\* such messages alone has no first and no last contact date.
C25_UndatedMessageStopsNothing ==
    /\ scan_error # "sort"
    /\ ~(pc = "merge" /\ scan_mode = "incremental"
            /\ MergeRaises(tracker_data.contacts, new_contacts))
    /\ \A k \in Keys(new_contacts) :
           /\ new_contacts[k].emails_received_from >= 1
           /\ (new_contacts[k].first_contact_date = None)
                  <=> (new_contacts[k].last_contact_date = None)

\* C26: the oracle is called only in a run with enrichment enabled, and then
\* for exactly the contacts of the merged set with a non-empty window, one
\* call each and none for a contact with an empty window; whatever the calls
\* return, malformed or failed answers included, the run goes on to persist.
C26_OracleCalledPerWindow ==
    /\ (~enable_ai \/ ~env.ai_client) => replies = NoReplies
    /\ pc \notin {"persist", "success"} => replies = NoReplies
    /\ (pc \in {"persist", "success"} /\ enable_ai /\ env.ai_client)
           => Keys(replies) = WithWindow(existing_contacts)
    /\ (pc = "success" /\ replies # NoReplies)
           => Stored.contacts = existing_contacts

\* Two contacts were called for in one run: the call for one came back
\* malformed, the call for the other was still made and its result stored.
C26_Witness ==
    /\ pc = "success"
    /\ \E j, k \in Keys(replies) :
           /\ replies[j] \in {"not json", "malformed"}
           /\ replies[k] = "json1"
           /\ Stored.contacts[j].ai_analysis = "empty"
           /\ Stored.contacts[k].ai_analysis = "A1"

\* C27: after incremental scans only, each contact's recentMessages holds
\* the 3 most recent, by timestamp, of the eligible messages counted for the
\* contact, or all of them when there are fewer, each excerpt at most 2000
\* characters.  Stated for a mailbox whose every message is eligible, where
\* firstContactAt and lastContactAt are Date headers of counted eligible
\* messages: each of the two is in the window, or the window is full of
\* messages no earlier than it.
C27_WindowHoldsMostRecent ==
    (single.scans >= 1 /\ \A m \in env.feed : Eligible(get_message_body(m.payload)))
        => \A k \in Keys(Stored.contacts) :
               LET c == Stored.contacts[k]
                   w == c.recent_emails
               IN  /\ \A i \in 1..Len(w) : w[i].body <= MaxExcerpt
                   /\ \A d \in {c.first_contact_date, c.last_contact_date} \ {None} :
                          \/ \E i \in 1..Len(w) : w[i].date = d
                          \/ /\ Len(w) = MaxRecent
                             /\ \A i \in 1..Len(w) :
                                    /\ w[i].date # None
                                    /\ TimeOf(w[i].date) >= TimeOf(d)

====
